---- MODULE Spec2Model ----
(***************************************************************************)
(* domdf_python_tools: the glob matcher matchglob of paths.py, modelled as *)
(* the statement-level state machine of its loops, followed by bdict and   *)
(* permutations of utils.py, traverse_to_file, PathPlus.iterchildren and   *)
(* in_directory of paths.py and Dictable of bases.py.  Each part has its   *)
(* own variable, initial predicate and specification; the variables of the *)
(* other parts stay Parked.                                                *)
(*                                                                         *)
(* A path segment and a pattern segment are sequences of one-character     *)
(* strings (<<"A","c">> is the segment "Ac"); a path and a pattern are the *)
(* tuples of segments that pathlib's .parts yields for them.               *)
(***************************************************************************)
EXTENDS Integers, Sequences, FiniteSets, TLC

\* Longest path and longest pattern (in segments) that Init draws.
MaxPathLen == 4
MaxPatLen == 3

\* The pattern segment "**".
StarStar == <<"*", "*">>

\* Value of the locals pattern_part / filename_part before their first assignment.
NoPart == <<>>

\* Segments the paths are drawn from: "a", "c", "Ac".
PathSegs == {<<"a">>, <<"c">>, <<"A", "c">>}

\* Segments the patterns are drawn from: the literals, "*", "?c", "a*", "**".
PatSegs == PathSegs \cup {<<"*">>, <<"?", "c">>, <<"a", "*">>, StarStar}

SeqsUpTo(S, n) == UNION {[1..k -> S] : k \in 0..n}

(***************************************************************************)
(* fnmatch.fnmatchcase(name, pat): shell-style matching of one segment,    *)
(* case-sensitive. "*" matches any run of characters, "?" any single       *)
(* character, every other character itself.  The alphabet of the model has *)
(* no "[", so the character-class branch of fnmatch.translate is not       *)
(* reachable.                                                              *)
(***************************************************************************)

\* str.lower() on the characters of the model's alphabet.
Lower(ch) == IF ch = "A" THEN "a" ELSE ch

\* fnmatch.fnmatch in place of fnmatchcase, on a platform whose
\* os.path.normcase lowers the case of both arguments.
RECURSIVE fnmatch_nocase(_, _)
fnmatch_nocase(name, pat) ==
    IF pat = <<>> THEN name = <<>>
    ELSE IF Head(pat) = "*"
         THEN \/ fnmatch_nocase(name, Tail(pat))
              \/ (name # <<>> /\ fnmatch_nocase(Tail(name), pat))
    ELSE IF Head(pat) = "?"
         THEN name # <<>> /\ fnmatch_nocase(Tail(name), Tail(pat))
    ELSE /\ name # <<>>
         /\ Lower(Head(name)) = Lower(Head(pat))
         /\ fnmatch_nocase(Tail(name), Tail(pat))

RECURSIVE fnmatchcase(_, _)
fnmatchcase(name, pat) ==
    IF pat = <<>> THEN name = <<>>
    ELSE IF Head(pat) = "*"
         THEN \/ fnmatchcase(name, Tail(pat))
              \/ (name # <<>> /\ fnmatchcase(Tail(name), pat))
    ELSE IF Head(pat) = "?"
         THEN name # <<>> /\ fnmatchcase(Tail(name), Tail(pat))
    ELSE /\ name # <<>>
         /\ Head(name) = Head(pat)
         /\ fnmatchcase(Tail(name), Tail(pat))

(***************************************************************************)
(* The locals of one matchglob call, as a record s:                        *)
(*   pc             position in the function                               *)
(*   pattern_parts  deque of the pattern segments not yet taken            *)
(*   filename_parts deque of the path segments not yet taken               *)
(*   pattern_part, filename_part   the segments last taken                 *)
(*   result         "none" while running, then "True", "False" or the      *)
(*                  exception that left the function ("IndexError")        *)
(***************************************************************************)
Begin(f, p) ==
    [pc |-> "start", pattern_parts |-> p, filename_parts |-> f,
     pattern_part |-> NoPart, filename_part |-> NoPart, result |-> "none"]

Return(s, r) == [s EXCEPT !.pc = "done", !.result = r]

\* deque.popleft() / deque[-1] on an empty deque.
Raise(s) == Return(s, "IndexError")

\* if not pattern_parts[-1]: pattern_parts.pop()
CheckTrailing(s) ==
    IF s.pattern_parts = <<>> THEN Raise(s)
    ELSE IF s.pattern_parts[Len(s.pattern_parts)] = <<>>
         THEN [s EXCEPT !.pc = "loop",
                        !.pattern_parts = SubSeq(@, 1, Len(@) - 1)]
    ELSE [s EXCEPT !.pc = "loop"]

\* LoopTop with filename_parts.pop() (from the right) in place of popleft().
LoopTop_pop(s) ==
    IF s.pattern_parts = <<>> /\ s.filename_parts = <<>> THEN Return(s, "True")
    ELSE IF s.pattern_parts = <<>> THEN Raise(s)
    ELSE LET t == [s EXCEPT !.pattern_part = Head(s.pattern_parts),
                            !.pattern_parts = Tail(s.pattern_parts)]
         IN  IF t.pattern_part = StarStar /\ t.filename_parts = <<>>
             THEN Return(t, "True")
             ELSE IF t.filename_parts = <<>> THEN Raise(t)
             ELSE [t EXCEPT !.pc = "branch",
                            !.filename_part = t.filename_parts[Len(t.filename_parts)],
                            !.filename_parts = SubSeq(t.filename_parts, 1,
                                                      Len(t.filename_parts) - 1)]

\* Top of `while True`: the success test and the two popleft() calls.
LoopTop(s) ==
    IF s.pattern_parts = <<>> /\ s.filename_parts = <<>> THEN Return(s, "True")
    ELSE IF s.pattern_parts = <<>> THEN Raise(s)
    ELSE LET t == [s EXCEPT !.pattern_part = Head(s.pattern_parts),
                            !.pattern_parts = Tail(s.pattern_parts)]
         IN  IF t.pattern_part = StarStar /\ t.filename_parts = <<>>
             THEN Return(t, "True")
             ELSE IF t.filename_parts = <<>> THEN Raise(t)
             ELSE [t EXCEPT !.pc = "branch",
                            !.filename_part = Head(t.filename_parts),
                            !.filename_parts = Tail(t.filename_parts)]

\* Branch with `and` in place of `or` in the test that lets a "**" absorb the rest.
Branch_and(s) ==
    IF s.pattern_part = StarStar
    THEN IF s.pattern_parts = <<>> /\ s.filename_parts = <<>>
         THEN Return(s, "True")
         ELSE [s EXCEPT !.pc = "collapse"]
    ELSE IF fnmatchcase(s.filename_part, s.pattern_part)
         THEN [s EXCEPT !.pc = "loop"]
         ELSE Return(s, "False")

\* Branch that goes on to the next pair after a mismatch instead of failing.
Branch_skip(s) ==
    IF s.pattern_part = StarStar
    THEN IF s.pattern_parts = <<>> \/ s.filename_parts = <<>>
         THEN Return(s, "True")
         ELSE [s EXCEPT !.pc = "collapse"]
    ELSE [s EXCEPT !.pc = "loop"]

\* Branch whose "**" test only looks at the pattern: `if not pattern_parts`.
Branch_patonly(s) ==
    IF s.pattern_part = StarStar
    THEN IF s.pattern_parts = <<>>
         THEN Return(s, "True")
         ELSE [s EXCEPT !.pc = "collapse"]
    ELSE IF fnmatchcase(s.filename_part, s.pattern_part)
         THEN [s EXCEPT !.pc = "loop"]
         ELSE Return(s, "False")

\* if pattern_part == "**": ... elif fnmatchcase(...): continue else: return False
Branch(s) ==
    IF s.pattern_part = StarStar
    THEN IF s.pattern_parts = <<>> \/ s.filename_parts = <<>>
         THEN Return(s, "True")
         ELSE [s EXCEPT !.pc = "collapse"]
    ELSE IF fnmatchcase(s.filename_part, s.pattern_part)
         THEN [s EXCEPT !.pc = "loop"]
         ELSE Return(s, "False")

\* One test of `while pattern_part == "**": pattern_part = pattern_parts.popleft()`
CollapseStars(s) ==
    IF s.pattern_part = StarStar
    THEN IF s.pattern_parts = <<>> THEN Raise(s)
         ELSE [s EXCEPT !.pattern_part = Head(s.pattern_parts),
                        !.pattern_parts = Tail(s.pattern_parts)]
    ELSE [s EXCEPT !.pc = "seek"]

\* SeekMatch without the inner loop: a mismatch right after the "**" run fails.
SeekMatch_noadvance(s) ==
    IF fnmatchcase(s.filename_part, s.pattern_part)
    THEN [s EXCEPT !.pc = "loop"]
    ELSE Return(s, "False")

\* SeekMatch that reads the next path segment without removing it from the deque.
SeekMatch_peek(s) ==
    IF fnmatchcase(s.filename_part, s.pattern_part)
    THEN [s EXCEPT !.pc = "loop"]
    ELSE IF s.filename_parts = <<>> THEN Return(s, "False")
    ELSE [s EXCEPT !.filename_part = Head(s.filename_parts)]

\* One test of fnmatchcase after a "**" run: on a match go back to the top of
\* the outer loop, otherwise take the next path segment or fail when none is left.
SeekMatch(s) ==
    IF fnmatchcase(s.filename_part, s.pattern_part)
    THEN [s EXCEPT !.pc = "loop"]
    ELSE IF s.filename_parts = <<>> THEN Return(s, "False")
    ELSE [s EXCEPT !.filename_part = Head(s.filename_parts),
                   !.filename_parts = Tail(s.filename_parts)]

StepOf(s) ==
    CASE s.pc = "start" -> CheckTrailing(s)
      [] s.pc = "loop" -> LoopTop(s)
      [] s.pc = "branch" -> Branch(s)
      [] s.pc = "collapse" -> CollapseStars(s)
      [] s.pc = "seek" -> SeekMatch(s)
      [] OTHER -> s

RECURSIVE Run(_)
Run(s) == IF s.pc = "done" THEN s ELSE Run(StepOf(s))

\* The outcome of matchglob(f, p): "True", "False" or "IndexError".
matchglob(f, p) == Run(Begin(f, p)).result

VARIABLES filename, pattern, pc, pattern_parts, filename_parts,
          pattern_part, filename_part, result,
          bd, perm, trav, iter, cwd, dict_

\* The variables of matchglob, and those of the other parts of the module.
mgvars == <<filename, pattern, pc, pattern_parts, filename_parts,
            pattern_part, filename_part, result>>

others == <<bd, perm, trav, iter, cwd, dict_>>

vars == <<mgvars, others>>

\* Value of a variable whose part of the module is not running.
Parked == "parked"

MatchglobParked ==
    /\ filename = Parked
    /\ pattern = Parked
    /\ pc = Parked
    /\ pattern_parts = Parked
    /\ filename_parts = Parked
    /\ pattern_part = Parked
    /\ filename_part = Parked
    /\ result = Parked

Locals ==
    [pc |-> pc, pattern_parts |-> pattern_parts, filename_parts |-> filename_parts,
     pattern_part |-> pattern_part, filename_part |-> filename_part,
     result |-> result]

Becomes(n) ==
    /\ pc' = n.pc
    /\ pattern_parts' = n.pattern_parts
    /\ filename_parts' = n.filename_parts
    /\ pattern_part' = n.pattern_part
    /\ filename_part' = n.filename_part
    /\ result' = n.result
    /\ UNCHANGED <<filename, pattern, others>>

Init ==
    /\ filename \in SeqsUpTo(PathSegs, MaxPathLen)
    /\ pattern \in SeqsUpTo(PatSegs, MaxPatLen)
    /\ pc = "start"
    /\ pattern_parts = pattern
    /\ filename_parts = filename
    /\ pattern_part = NoPart
    /\ filename_part = NoPart
    /\ result = "none"
    /\ bd = Parked
    /\ perm = Parked
    /\ trav = Parked
    /\ iter = Parked
    /\ cwd = Parked
    /\ dict_ = Parked

Start == pc = "start" /\ Becomes(CheckTrailing(Locals))

OuterTop == pc = "loop" /\ Becomes(LoopTop(Locals))

Dispatch == pc = "branch" /\ Becomes(Branch(Locals))

Collapse == pc = "collapse" /\ Becomes(CollapseStars(Locals))

Seek == pc = "seek" /\ Becomes(SeekMatch(Locals))

Next == Start \/ OuterTop \/ Dispatch \/ Collapse \/ Seek

Spec == Init /\ [][Next]_vars

\* The calls followed to their end under fairness: the same function on
\* the paths and patterns of up to MaxTermPathLen and MaxTermPatLen segments.
MaxTermPathLen == 3
MaxTermPatLen == 3

TermInit ==
    /\ Init
    /\ Len(filename) <= MaxTermPathLen
    /\ Len(pattern) <= MaxTermPatLen

\* A call that has not returned or raised goes on running: the interpreter
\* always takes the next step of the function.
FairSpec == TermInit /\ [][Next]_vars /\ WF_vars(Next)

TypeOK ==
    /\ pc \in {"start", "loop", "branch", "collapse", "seek", "done"}
    /\ result \in {"none", "True", "False", "IndexError"}
    /\ (pc = "done") <=> (result # "none")

(***************************************************************************)
(* Vocabulary of the properties.                                           *)
(***************************************************************************)
Done == pc = "done"

NoStarStar(p) == \A i \in 1..Len(p) : p[i] # StarStar

Wildcards == {"*", "?", "["}

IsLiteral(seg) == \A j \in 1..Len(seg) : seg[j] \notin Wildcards

\* The first n segments of path f match the first n segments of pattern p, pairwise.
PrefixMatches(f, p, n) ==
    /\ Len(f) >= n
    /\ Len(p) >= n
    /\ \A i \in 1..n : fnmatchcase(f[i], p[i])

\* Shell-glob matching of one segment stated by cut points instead of by
\* recursion: c[i] is the number of characters of name used up by pat[1..i].
GlobMatches(name, pat) ==
    \E c \in [0..Len(pat) -> 0..Len(name)] :
        /\ c[0] = 0
        /\ c[Len(pat)] = Len(name)
        /\ \A i \in 1..Len(pat) :
              IF pat[i] = "*" THEN c[i] >= c[i-1]
              ELSE /\ c[i] = c[i-1] + 1
                   /\ (pat[i] = "?" \/ name[c[i]] = pat[i])

\* Pattern p with its segment i replaced by n adjacent "**" segments.
Expand(p, i, n) ==
    SubSeq(p, 1, i - 1) \o [k \in 1..n |-> StarStar] \o SubSeq(p, i + 1, Len(p))

\* Segment i of p is a "**" with no "**" next to it.
SingleStarStar(p, i) ==
    /\ p[i] = StarStar
    /\ (i > 1 => p[i-1] # StarStar)
    /\ (i < Len(p) => p[i+1] # StarStar)

\* pattern = prefix/**/s with a "**"-free prefix and s not "**".
PrefixStarsSeg ==
    /\ Len(pattern) >= 2
    /\ pattern[Len(pattern) - 1] = StarStar
    /\ pattern[Len(pattern)] # StarStar
    /\ NoStarStar(SubSeq(pattern, 1, Len(pattern) - 2))

\* pattern = a/**/c for literal segments a and c, filename = a/x1/.../xk/c.
Sandwich ==
    /\ Len(pattern) = 3
    /\ IsLiteral(pattern[1])
    /\ pattern[2] = StarStar
    /\ IsLiteral(pattern[3])
    /\ Len(filename) >= 2
    /\ filename[1] = pattern[1]
    /\ filename[Len(filename)] = pattern[3]

\* pattern = prefix/** with a "**"-free prefix (possibly empty).
PrefixThenStars ==
    /\ Len(pattern) >= 1
    /\ pattern[Len(pattern)] = StarStar
    /\ NoStarStar(SubSeq(pattern, 1, Len(pattern) - 1))

(***************************************************************************)
(* The claims.                                                             *)
(***************************************************************************)

\* C1: matchglob is total: every call returns a boolean and never raises.
C1_Total == Done => result \in {"True", "False"}

\* C2: when every pattern segment has been consumed but path segments
\* remain at the top of the loop, the call returns false.
C2_LeftoverPathIsFalse ==
    [][(pc = "loop" /\ pattern_parts = <<>> /\ filename_parts # <<>>)
          => result' = "False"]_vars

\* C3: when the path segments are exhausted at the top of the loop while the
\* next pattern segment is not "**", the call returns false.
C3_ExhaustedPathIsFalse ==
    [][(/\ pc = "loop"
        /\ filename_parts = <<>>
        /\ pattern_parts # <<>>
        /\ Head(pattern_parts) # StarStar) => result' = "False"]_vars

\* C4: an empty pattern against a non-empty path returns false.
C4_EmptyPatternIsFalse ==
    (Done /\ pattern = <<>> /\ filename # <<>>) => result = "False"

\* C5: for a pattern prefix/**/s whose prefix matches the start of the path,
\* if no path segment after the prefix matches s the call returns false,
\* however many path segments follow the prefix.
C5_MissingSegmentIsFalse ==
    (/\ Done
     /\ PrefixStarsSeg
     /\ PrefixMatches(filename, pattern, Len(pattern) - 2)
     /\ \A j \in (Len(pattern) - 1)..Len(filename) :
           ~fnmatchcase(filename[j], pattern[Len(pattern)]))
    => result = "False"

\* C6: replacing a single "**" segment by two or three adjacent "**" segments
\* does not change the outcome of the call.
C6_AdjacentStarsSame ==
    Done => \A i \in 1..Len(pattern) : \A n \in 2..3 :
               SingleStarStar(pattern, i)
                  => matchglob(filename, Expand(pattern, i, n)) = result

\* C7 as stated: pattern a/**/c matches every path a/x1/.../xk/c, k >= 0,
\* whatever the intermediate segments are.
C7_AnyDepthAnySegments == (Done /\ Sandwich) => result = "True"

\* C7, amended: pattern a/**/c matches every path a/x1/.../xk/c, k >= 0, in
\* which no intermediate segment x1..xk itself matches c.
C7_AnyDepth ==
    (/\ Done
     /\ Sandwich
     /\ \A j \in 2..(Len(filename) - 1) : ~fnmatchcase(filename[j], pattern[3]))
    => result = "True"

C7_Witness ==
    /\ Done
    /\ Sandwich
    /\ Len(filename) = 4
    /\ \A j \in 2..3 : ~fnmatchcase(filename[j], pattern[3])
    /\ result = "True"

\* C8: a "**"-free prefix followed by one trailing "**" matches every path
\* whose leading segments match the prefix pairwise, with zero, one or many
\* further segments; the bare pattern "**" matches every path.
C8_TrailingStars ==
    (/\ Done
     /\ PrefixThenStars
     /\ PrefixMatches(filename, pattern, Len(pattern) - 1))
    => result = "True"

C8_Witness ==
    /\ Done
    /\ PrefixThenStars
    /\ Len(pattern) >= 2
    /\ PrefixMatches(filename, pattern, Len(pattern) - 1)
    /\ Len(filename) >= Len(pattern) + 1
    /\ result = "True"

\* C9: a non-empty path of wildcard-free segments, none of them "**", matches
\* itself used as the pattern.
C9_Identity ==
    (/\ Done
     /\ filename # <<>>
     /\ \A i \in 1..Len(filename) : IsLiteral(filename[i])
     /\ pattern = filename)
    => result = "True"

C9_Witness ==
    /\ Done
    /\ Len(filename) = 3
    /\ filename[1] # filename[2]
    /\ \A i \in 1..Len(filename) : IsLiteral(filename[i])
    /\ pattern = filename
    /\ result = "True"

\* C10: for a pattern without "**", a true result means that path and pattern
\* have the same number of segments and that the i-th path segment matches
\* the i-th pattern segment, case-sensitively, for every i.
C10_SegmentBySegment ==
    (Done /\ result = "True" /\ NoStarStar(pattern))
    => /\ Len(filename) = Len(pattern)
       /\ \A i \in 1..Len(pattern) : GlobMatches(filename[i], pattern[i])

C10_Witness ==
    /\ Done
    /\ result = "True"
    /\ NoStarStar(pattern)
    /\ Len(pattern) = 3
    /\ \E i \in 1..3 : ~IsLiteral(pattern[i]) /\ Len(filename[i]) = 2

\* pattern[i..r] is the only run of "**" in pattern and at least two segments
\* follow it.
OnlyRun(i, r) ==
    /\ i <= r
    /\ r + 2 <= Len(pattern)
    /\ \A h \in 1..Len(pattern) : (pattern[h] = StarStar) <=> (h \in i..r)

\* j is the first index at or after i of a path segment that matches seg.
FirstMatch(i, j, seg) ==
    /\ j \in i..Len(filename)
    /\ fnmatchcase(filename[j], seg)
    /\ \A h \in i..(j - 1) : ~fnmatchcase(filename[h], seg)

\* Path segment j is paired with pattern segment q; the pairs after it match
\* up to a pair m places on, which both exist and do not match.
MismatchAfter(j, q) ==
    \E m \in 1..(Len(pattern) - q) :
        /\ j + m <= Len(filename)
        /\ ~fnmatchcase(filename[j + m], pattern[q + m])
        /\ \A n \in 1..(m - 1) : fnmatchcase(filename[j + n], pattern[q + n])

\* The path from segment j on matches the pattern from segment q on, pair by pair.
TailMatches(j, q) ==
    /\ Len(filename) - j = Len(pattern) - q
    /\ \A n \in 0..(Len(pattern) - q) : fnmatchcase(filename[j + n], pattern[q + n])

\* C11: "**" is resolved greedily and without backtracking: with the prefix
\* matched, matching resumes at the first path segment j that matches the
\* segment s after the "**" run; if a later pair then mismatches, the call
\* returns false, whether or not a later occurrence of s would match.
C11_GreedyNoBacktrack ==
    (Done /\ \E i, r \in 1..Len(pattern) :
                /\ OnlyRun(i, r)
                /\ PrefixMatches(filename, pattern, i - 1)
                /\ \E j \in 1..Len(filename) :
                      FirstMatch(i, j, pattern[r + 1]) /\ MismatchAfter(j, r + 1))
    => result = "False"

C11_Witness ==
    /\ Done
    /\ result = "False"
    /\ \E i, r \in 1..Len(pattern) :
          /\ OnlyRun(i, r)
          /\ PrefixMatches(filename, pattern, i - 1)
          /\ \E j \in 1..Len(filename) :
                /\ FirstMatch(i, j, pattern[r + 1])
                /\ MismatchAfter(j, r + 1)
                /\ \E j2 \in (j + 1)..Len(filename) : TailMatches(j2, r + 1)

\* C20: when a "**" is taken at the top of the loop while exactly one path
\* segment remains, the call returns true and the pattern segments after the
\* "**" are left in the deque, never taken.
C20_LastSegmentAbsorbed ==
    (/\ pc = "loop"
     /\ pattern_parts # <<>>
     /\ Head(pattern_parts) = StarStar
     /\ Len(filename_parts) = 1)
    => /\ Run(Locals).result = "True"
       /\ Run(Locals).pattern_parts = Tail(pattern_parts)

C20_Witness ==
    /\ Done
    /\ result = "True"
    /\ pattern_part = StarStar
    /\ filename_part # NoPart
    /\ filename_parts = <<>>
    /\ Len(pattern_parts) >= 1
    /\ ~fnmatchcase(filename_part, Head(pattern_parts))

(***************************************************************************)
(* utils.py: bdict, the bidirectional dictionary.                          *)
(*                                                                         *)
(* Python objects are written as strings: "None", "True", "False" are the  *)
(* three singletons, "1" the int 1, "x" and "y" the strings 'x' and 'y',   *)
(* "_None", "_True", "_False" the strings bdict stores in their place.     *)
(* The underlying dict is a function from its keys to their values.        *)
(***************************************************************************)

\* Longest positional argument (in pairs) and most keyword arguments of bdict().
MaxSeqLen == 2
MaxKwargs == 1

\* Keys and values handed to bdict.
BdVals == {"None", "True", "False", "1", "x"}

\* Names of keyword arguments handed to bdict().
KwNames == {"x", "y"}

\* Python's ==: True == 1 (and hash(True) == hash(1)).
PyEq(a, b) == a = b \/ {a, b} = {"True", "1"}

\* The key a plain dict looks up for object k.
RawKey(k) == IF k = "True" THEN "1" ELSE k

\* `if key is None: key = "_None"`, `if isinstance(key, bool): ...`
Intern(k) ==
    CASE k = "None" -> "_None"
      [] k = "True" -> "_True"
      [] k = "False" -> "_False"
      [] OTHER -> k

\* The tail of __getitem__: `if val == "_None": return None` ...
Extern(v) ==
    CASE v = "_None" -> "None"
      [] v = "_True" -> "True"
      [] v = "_False" -> "False"
      [] OTHER -> v

EmptyDict == [x \in {} |-> "x"]

\* dict.__setitem__ and dict.__delitem__ on a key that is present.
Put(d, k, v) == [x \in (DOMAIN d) \cup {k} |-> IF x = k THEN v ELSE d[x]]

Remove(d, k) == [x \in (DOMAIN d) \ {k} |-> d[x]]

\* bdict.__contains__
Contains(d, key) == Intern(key) \in DOMAIN d

\* bdict.__getitem__ for a key that is present.
GetItem(d, key) == Extern(d[Intern(key)])

\* bdict.__setitem__: the dictionary afterwards and how the call ended.
SetItem(d, key, val) ==
    IF Contains(d, key) /\ ~PyEq(GetItem(d, key), val)
    THEN [d |-> d, outcome |-> "ValueError"]
    ELSE IF Contains(d, val) /\ ~PyEq(GetItem(d, val), key)
    THEN [d |-> d, outcome |-> "ValueError"]
    ELSE [d |-> Put(Put(d, Intern(key), Intern(val)), Intern(val), Intern(key)),
          outcome |-> "ok"]

\* bdict.__delitem__: self[key] raises KeyError for a missing key, and so does
\* each of the two dict.__delitem__ calls, which look up their argument as it is.
DelItem(d, key) ==
    IF ~Contains(d, key) THEN [d |-> d, outcome |-> "KeyError"]
    ELSE LET v == RawKey(GetItem(d, key))
         IN  IF v \notin DOMAIN d THEN [d |-> d, outcome |-> "KeyError"]
             ELSE LET d1 == Remove(d, v)
                  IN  IF RawKey(key) \notin DOMAIN d1
                      THEN [d |-> d1, outcome |-> "KeyError"]
                      ELSE [d |-> Remove(d1, RawKey(key)), outcome |-> "ok"]

\* dict(seq).items() for a list of pairs: a repeated key keeps its first
\* position and takes the later value.
RECURSIVE DictItems(_)
DictItems(seq) ==
    IF seq = <<>> THEN <<>>
    ELSE LET front == DictItems(SubSeq(seq, 1, Len(seq) - 1))
             last == seq[Len(seq)]
         IN  IF \E i \in 1..Len(front) : PyEq(front[i][1], last[1])
             THEN [i \in 1..Len(front) |->
                     IF PyEq(front[i][1], last[1])
                     THEN <<front[i][1], last[2]>> ELSE front[i]]
             ELSE Append(front, last)

\* The loop `for key, value in ...: self.__setitem__(key, value)`; an
\* exception of __setitem__ leaves the loop.
RECURSIVE SetAll(_, _)
SetAll(d, items) ==
    IF items = <<>> THEN [d |-> d, outcome |-> "ok"]
    ELSE LET r == SetItem(d, items[1][1], items[1][2])
         IN  IF r.outcome = "ok" THEN SetAll(r.d, Tail(items)) ELSE r

\* bdict.__init__(seq, **kwargs)
BdictInit(seq, kwargs) ==
    IF seq # <<>> THEN SetAll(EmptyDict, DictItems(seq))
    ELSE SetAll(EmptyDict, kwargs)

\* The positional arguments: lists of (key, value) pairs.
SeqArgs == SeqsUpTo(BdVals \X BdVals, MaxSeqLen)

\* The keyword arguments, in call order: pairs (name, value) with distinct names.
KwArgs ==
    {kw \in SeqsUpTo(KwNames \X BdVals, MaxKwargs) :
        \A i, j \in 1..Len(kw) : i # j => kw[i][1] # kw[j][1]}

\* The state after `bd = bdict(seq, **kwargs)`.
BdInit ==
    /\ \E seq \in SeqArgs, kw \in KwArgs :
          bd = [d |-> BdictInit(seq, kw).d, op |-> "init", args |-> <<seq, kw>>,
                outcome |-> BdictInit(seq, kw).outcome]
    /\ MatchglobParked
    /\ perm = Parked
    /\ trav = Parked
    /\ iter = Parked
    /\ cwd = Parked
    /\ dict_ = Parked

\* An object exists unless its constructor raised.
BdAlive == ~(bd.op = "init" /\ bd.outcome # "ok")

\* bd[key] = val
BdSet ==
    /\ BdAlive
    /\ \E key, val \in BdVals :
          bd' = [d |-> SetItem(bd.d, key, val).d, op |-> "set",
                 args |-> <<key, val>>, outcome |-> SetItem(bd.d, key, val).outcome]
    /\ UNCHANGED <<mgvars, perm, trav, iter, cwd, dict_>>

\* del bd[key]
BdDel ==
    /\ BdAlive
    /\ \E key \in BdVals :
          bd' = [d |-> DelItem(bd.d, key).d, op |-> "del",
                 args |-> <<key>>, outcome |-> DelItem(bd.d, key).outcome]
    /\ UNCHANGED <<mgvars, perm, trav, iter, cwd, dict_>>

BdNext == BdSet \/ BdDel

SpecBdict == BdInit /\ [][BdNext]_vars

\* C12: every stored entry k -> v has the reverse entry v -> k stored as well.
C12_Bidirectional ==
    BdAlive => \A k \in DOMAIN bd.d : bd.d[k] \in DOMAIN bd.d /\ bd.d[bd.d[k]] = k

\* C13: d[k] = v on a bdict in which k or v is already present raises ValueError.
C13_PresentRaises ==
    [][(/\ bd'.op = "set"
        /\ (Contains(bd.d, bd'.args[1]) \/ Contains(bd.d, bd'.args[2])))
          => bd'.outcome = "ValueError"]_vars

\* C14: a bdict built from a non-empty positional argument and keyword
\* arguments holds the pairs of the positional argument and the keyword
\* arguments with their values, each in both directions.
C14_KwargsAdded ==
    (/\ bd.op = "init"
     /\ bd.outcome = "ok"
     /\ bd.args[1] # <<>>
     /\ bd.args[2] # <<>>)
    => \A i \in 1..Len(bd.args[2]) :
          LET k == Intern(bd.args[2][i][1])
              v == Intern(bd.args[2][i][2])
          IN  /\ k \in DOMAIN bd.d
              /\ v \in DOMAIN bd.d
              /\ bd.d[k] = v
              /\ bd.d[v] = k

(***************************************************************************)
(* paths.py: traverse_to_file(base_directory, *filename, height).          *)
(*                                                                         *)
(* Directory `level` is base_directory itself for level 0 and its level-th *)
(* parent otherwise; base_directory has `depth` parents.  files is the set *)
(* of pairs <<level, name>> for which (directory / name).is_file().        *)
(***************************************************************************)

\* Most parents of base_directory, and largest height argument.
MaxDepth == 3
MaxHeight == 2

\* File names searched for and present in the tree.
FileNames == {"f", "g"}

\* The *filename arguments: zero, one or two names.
FilenameArgs == {<<>>} \cup {<<n>> : n \in FileNames} \cup {<<"f", "g">>}

\* if height > 0 and ((level - 1) > height): break
PastHeight(level, height) == height > 0 /\ (level - 1) > height

\* for file in filename: if (directory / file).is_file(): return directory
FoundIn(t, level) == \E i \in 1..Len(t.filename) : <<level, t.filename[i]>> \in t.files

\* if not filename: raise TypeError(...)
TravCheckArgs(t) ==
    IF t.filename = <<>>
    THEN [t EXCEPT !.pc = "done", !.result = "TypeError"]
    ELSE [t EXCEPT !.pc = "loop"]

\* One pass of `for level, directory in enumerate(...)`, and the raise after it.
TravLevel(t) ==
    IF t.level > t.depth \/ PastHeight(t.level, t.height)
    THEN [t EXCEPT !.pc = "done", !.result = "FileNotFoundError"]
    ELSE IF FoundIn(t, t.level)
         THEN [t EXCEPT !.pc = "done", !.result = t.level,
                        !.examined = @ \cup {t.level}]
         ELSE [t EXCEPT !.level = @ + 1, !.examined = @ \cup {t.level}]

TravInit ==
    /\ \E depth \in 0..MaxDepth, height \in -1..MaxHeight, fn \in FilenameArgs :
       \E files \in SUBSET ((0..depth) \X FileNames) :
          trav = [depth |-> depth, height |-> height, filename |-> fn,
                  files |-> files, level |-> 0, pc |-> "start",
                  result |-> "none", examined |-> {}]
    /\ MatchglobParked
    /\ bd = Parked
    /\ perm = Parked
    /\ iter = Parked
    /\ cwd = Parked
    /\ dict_ = Parked

TravStart ==
    /\ trav.pc = "start"
    /\ trav' = TravCheckArgs(trav)
    /\ UNCHANGED <<mgvars, bd, perm, iter, cwd, dict_>>

TravStep ==
    /\ trav.pc = "loop"
    /\ trav' = TravLevel(trav)
    /\ UNCHANGED <<mgvars, bd, perm, iter, cwd, dict_>>

TravNext == TravStart \/ TravStep

SpecTraverse == TravInit /\ [][TravNext]_vars

\* C15: with height h > 0 no directory more than h parents above
\* base_directory is examined or returned, and if the file exists only above
\* that level the call raises FileNotFoundError.
C15_AtMostHeight ==
    trav.height > 0 =>
       /\ \A l \in trav.examined : l <= trav.height
       /\ (/\ trav.pc = "done"
           /\ trav.filename # <<>>
           /\ \A l \in 0..trav.depth : l <= trav.height => ~FoundIn(trav, l))
          => trav.result = "FileNotFoundError"

(***************************************************************************)
(* paths.py: PathPlus.iterchildren(exclude_dirs, match=None).              *)
(*                                                                         *)
(* A path is the tuple of its parts (names); the file system is a set of   *)
(* nodes <<path, kind>> with kind "file" or "dir".  The generator and the  *)
(* generators it delegates to with `yield from` are a stack of frames, one *)
(* per directory being iterated, each with the entries iterdir() has not   *)
(* produced yet.  iterdir() produces the entries in arbitrary order.       *)
(***************************************************************************)

\* Deepest level of entries below the directory iterchildren is called on.
MaxTreeDepth == 2

\* Names of the entries below the starting directory.
EntryNames == <<"a", "venv">>

\* Names the starting directory itself can have.
RootNames == {"proj", "venv"}

\* The exclude_dirs arguments: None, an empty tuple, a tuple of one name.
ExcludeArgs ==
    {[none |-> TRUE, names |-> {}], [none |-> FALSE, names |-> {}],
     [none |-> FALSE, names |-> {"venv"}]}

\* The possible contents of directory dir, down to n further levels, using
\* the first k entry names.
RECURSIVE Contents(_, _, _)
Contents(dir, n, k) ==
    IF n = 0 \/ k = 0 THEN {{}}
    ELSE LET child == Append(dir, EntryNames[k])
             here == {{}} \cup {{<<child, "file">>}}
                        \cup {{<<child, "dir">>} \cup c :
                                 c \in Contents(child, n - 1, Len(EntryNames))}
         IN  {a \cup b : a \in here, b \in Contents(dir, n, k - 1)}

\* Path.is_dir()
IsDir(fs, path) == <<path, "dir">> \in fs

\* The entries of Path.iterdir()
Children(fs, dir) ==
    {nd[1] : nd \in {x \in fs : Len(x[1]) = Len(dir) + 1
                                  /\ SubSeq(x[1], 1, Len(dir)) = dir}}

\* if exclude_dirs is None: exclude_dirs = ()
ExcludeSet(arg) == IF arg.none THEN {} ELSE arg.names

\* any(d in parts for d in exclude_dirs)
Excluded(path, excl) == \E i \in 1..Len(path) : path[i] \in excl

\* The call: `if not self.is_dir(): return`, then the loop over iterdir().
IterEnter(it) ==
    IF ~IsDir(it.fs, it.root)
    THEN [it EXCEPT !.pc = "done"]
    ELSE [it EXCEPT !.pc = "loop",
                    !.stack = <<[dir |-> it.root, todo |-> Children(it.fs, it.root)]>>]

\* The innermost running generator.
Top(it) == it.stack[Len(it.stack)]

\* The stack with entry `file` taken from the innermost iterdir().
Taken(it, file) ==
    [it.stack EXCEPT ![Len(it.stack)].todo = @ \ {file}]

\* `continue` for an entry with an excluded name among its parts.
IterSkipEntry(it, file) == [it EXCEPT !.stack = Taken(it, file)]

\* `yield from file.iterchildren(exclude_dirs, match)` starts the generator
\* of a directory entry.
IterDescendInto(it, file) ==
    [it EXCEPT !.stack = Append(Taken(it, file),
                                [dir |-> file, todo |-> Children(it.fs, file)])]

\* `yield file` for an entry that is not a directory.
IterYieldEntry(it, file) ==
    [it EXCEPT !.stack = Taken(it, file), !.yielded = Append(@, file)]

\* The innermost generator is exhausted: the outermost one ends the
\* iteration, any other returns to `yield file` of the directory it iterated.
IterReturnFrom(it) ==
    IF Len(it.stack) = 1
    THEN [it EXCEPT !.stack = <<>>, !.pc = "done"]
    ELSE [it EXCEPT !.stack = SubSeq(@, 1, Len(@) - 1),
                    !.yielded = Append(@, Top(it).dir)]

IterInit ==
    /\ \E r \in RootNames, excl \in ExcludeArgs :
       \E fs \in {c \cup {<<(<<r>>), "dir">>} :
                     c \in Contents(<<r>>, MaxTreeDepth, Len(EntryNames))}
                 \cup {{<<(<<r>>), "file">>}} :
          iter = [fs |-> fs, root |-> <<r>>, exclude |-> excl, stack |-> <<>>,
                  yielded |-> <<>>, pc |-> "start"]
    /\ MatchglobParked
    /\ bd = Parked
    /\ perm = Parked
    /\ trav = Parked
    /\ cwd = Parked
    /\ dict_ = Parked

IterStart ==
    /\ iter.pc = "start"
    /\ iter' = IterEnter(iter)
    /\ UNCHANGED <<mgvars, bd, perm, trav, cwd, dict_>>

IterSkip ==
    /\ iter.pc = "loop"
    /\ \E file \in Top(iter).todo :
          /\ Excluded(file, ExcludeSet(iter.exclude))
          /\ iter' = IterSkipEntry(iter, file)
    /\ UNCHANGED <<mgvars, bd, perm, trav, cwd, dict_>>

IterDescend ==
    /\ iter.pc = "loop"
    /\ \E file \in Top(iter).todo :
          /\ ~Excluded(file, ExcludeSet(iter.exclude))
          /\ IsDir(iter.fs, file)
          /\ iter' = IterDescendInto(iter, file)
    /\ UNCHANGED <<mgvars, bd, perm, trav, cwd, dict_>>

IterYield ==
    /\ iter.pc = "loop"
    /\ \E file \in Top(iter).todo :
          /\ ~Excluded(file, ExcludeSet(iter.exclude))
          /\ ~IsDir(iter.fs, file)
          /\ iter' = IterYieldEntry(iter, file)
    /\ UNCHANGED <<mgvars, bd, perm, trav, cwd, dict_>>

IterReturn ==
    /\ iter.pc = "loop"
    /\ Top(iter).todo = {}
    /\ iter' = IterReturnFrom(iter)
    /\ UNCHANGED <<mgvars, bd, perm, trav, cwd, dict_>>

IterNext == IterStart \/ IterSkip \/ IterDescend \/ IterYield \/ IterReturn

SpecIter == IterInit /\ [][IterNext]_vars

\* The entries strictly below the starting directory.
Below(it) == {nd \in it.fs : Len(nd[1]) > Len(it.root)}

\* Entry nd is a directory with an excluded name, or lies beneath such a
\* directory that is itself below the starting directory.
InExcludedDir(it, nd) ==
    \/ nd[2] = "dir" /\ nd[1][Len(nd[1])] \in ExcludeSet(it.exclude)
    \/ \E i \in (Len(it.root) + 1)..(Len(nd[1]) - 1) :
          nd[1][i] \in ExcludeSet(it.exclude)

\* C16: called on a directory with match=None, iterchildren yields exactly
\* once each every file and directory below it, except the directories whose
\* name is in exclude_dirs and everything beneath them, and nothing else.
C16_YieldsAllButExcluded ==
    (iter.pc = "done" /\ IsDir(iter.fs, iter.root))
    => /\ \A i, j \in 1..Len(iter.yielded) :
             iter.yielded[i] = iter.yielded[j] => i = j
       /\ {iter.yielded[i] : i \in 1..Len(iter.yielded)}
             = {nd[1] : nd \in {x \in Below(iter) : ~InExcludedDir(iter, x)}}

(***************************************************************************)
(* utils.py: permutations(data, n).                                        *)
(***************************************************************************)

\* Longest data and largest n.
MaxDataLen == 3
MaxN == 4

\* The items of data.
Items == {"a", "b"}

\* t[::-1]
Reverse(t) == [k \in 1..Len(t) |-> t[Len(t) + 1 - k]]

Elems(t) == {t[k] : k \in 1..Len(t)}

\* The index tuples of itertools.permutations(range(len), n) that start with
\* prefix and continue with an index of at least i, in the order itertools
\* emits them.
RECURSIVE IndexTuples(_, _, _, _)
IndexTuples(prefix, i, len, n) ==
    IF Len(prefix) = n THEN <<prefix>>
    ELSE IF i > len THEN <<>>
    ELSE (IF i \in Elems(prefix) THEN <<>>
          ELSE IndexTuples(Append(prefix, i), 1, len, n))
         \o IndexTuples(prefix, i + 1, len, n)

\* list(itertools.permutations(data, n)) for n >= 0
ItertoolsPermutations(data, n) ==
    LET idx == IndexTuples(<<>>, 1, Len(data), n)
    IN  [j \in 1..Len(idx) |-> [k \in 1..n |-> data[idx[j][k]]]]

InList(t, list) == \E j \in 1..Len(list) : list[j] = t

\* `if n == 0: raise ValueError`, `perms = []`, and the call of
\* itertools.permutations, which raises ValueError for a negative n.
PermEnter(p) ==
    IF p.n <= 0
    THEN [p EXCEPT !.pc = "done", !.result = "ValueError"]
    ELSE [p EXCEPT !.pc = "loop", !.todo = ItertoolsPermutations(p.data, p.n)]

\* One pass of `for i in itertools.permutations(data, n)`, and `return perms`.
PermPass(p) ==
    IF p.todo = <<>> THEN [p EXCEPT !.pc = "done", !.result = "list"]
    ELSE LET i == Head(p.todo)
         IN  IF ~InList(Reverse(i), p.perms)
             THEN [p EXCEPT !.todo = Tail(@), !.perms = Append(@, i)]
             ELSE [p EXCEPT !.todo = Tail(@)]

PermInit ==
    /\ \E data \in SeqsUpTo(Items, MaxDataLen), n \in -1..MaxN :
          perm = [data |-> data, n |-> n, todo |-> <<>>, perms |-> <<>>,
                  pc |-> "start", result |-> "none"]
    /\ MatchglobParked
    /\ bd = Parked
    /\ trav = Parked
    /\ iter = Parked
    /\ cwd = Parked
    /\ dict_ = Parked

PermStart ==
    /\ perm.pc = "start"
    /\ perm' = PermEnter(perm)
    /\ UNCHANGED <<mgvars, bd, trav, iter, cwd, dict_>>

PermStep ==
    /\ perm.pc = "loop"
    /\ perm' = PermPass(perm)
    /\ UNCHANGED <<mgvars, bd, trav, iter, cwd, dict_>>

PermNext == PermStart \/ PermStep

SpecPerms == PermInit /\ [][PermNext]_vars

\* C17: permutations(data, n) returns an empty list whenever n is equal to or
\* greater than the length of data (n != 0); otherwise the returned n-item
\* tuples contain no tuple that is the reverse of another returned tuple.
C17_EmptyFromLength ==
    (perm.pc = "done" /\ perm.n > 0)
    => /\ perm.result = "list"
       /\ IF perm.n >= Len(perm.data)
          THEN perm.perms = <<>>
          ELSE /\ \A j \in 1..Len(perm.perms) : Len(perm.perms[j]) = perm.n
               /\ \A j, k \in 1..Len(perm.perms) :
                     j # k => perm.perms[j] # Reverse(perm.perms[k])

(***************************************************************************)
(* bases.py: Dictable, with the two classes the tests derive from it.       *)
(* Python values are written as strings: "None", a str as "s..." and an int *)
(* as "i...", so that str(12) = "s12" and 12 = "i12" are different values.  *)
(* An object is its class and its instance attributes; __dict__ is the      *)
(* property each class computes from them.                                  *)
(***************************************************************************)
NameArgs == {"sBob", "i12"}
AgeArgs == {"i12", "s20"}
OccupationArgs == {"None", "sStudent"}
SchoolArgs == {"sBig School"}

\* str(v)
ToStr(v) ==
    CASE v = "i12" -> "s12"
      [] v = "i20" -> "s20"
      [] v = "None" -> "sNone"
      [] OTHER -> v

\* int(v), for the values that are ints or numerals
ToInt(v) ==
    CASE v = "s12" -> "i12"
      [] v = "s20" -> "i20"
      [] OTHER -> v

\* Person.__init__(name, age, occupation)
PersonInit(name, age, occupation) ==
    [cls |-> "Person",
     attrs |-> [name |-> ToStr(name), age |-> ToInt(age),
                occupation |-> occupation]]

\* Child.__init__(name, age, school): the school argument is not stored
ChildInit(name, age, school) ==
    [cls |-> "Child",
     attrs |-> [name |-> ToStr(name), age |-> ToInt(age),
                occupation |-> "sStudent", school |-> "sschool"]]

\* the __dict__ property of the object's class
DictOf(o) ==
    LET person == [k \in {"name", "age", "occupation"} |-> o.attrs[k]]
    IN  IF o.cls = "Child"
        THEN [k \in {"name", "age", "occupation", "School"} |->
                 IF k = "School" THEN o.attrs.school ELSE person[k]]
        ELSE person

NoObject == [cls |-> "none", attrs |-> [name |-> "None"]]

\* cls(**kwargs): binding the keywords to the parameters of cls.__init__
\* raises TypeError for an unexpected keyword or a missing required one.
Construct(cls, kwargs) ==
    LET keys == DOMAIN kwargs
    IN  IF cls = "Person"
        THEN IF keys \subseteq {"name", "age", "occupation"}
                /\ {"name", "age"} \subseteq keys
             THEN [outcome |-> "ok",
                   obj |-> PersonInit(kwargs["name"], kwargs["age"],
                              IF "occupation" \in keys
                              THEN kwargs["occupation"] ELSE "None")]
             ELSE [outcome |-> "TypeError", obj |-> NoObject]
        ELSE IF keys = {"name", "age", "school"}
             THEN [outcome |-> "ok",
                   obj |-> ChildInit(kwargs["name"], kwargs["age"],
                                     kwargs["school"])]
             ELSE [outcome |-> "TypeError", obj |-> NoObject]

\* Dictable.__copy__
Copy(o) == Construct(o.cls, DictOf(o))

\* Dictable.__deepcopy__
DeepCopy(o) == Copy(o)

\* pickle.loads(pickle.dumps(o)): __getstate__ gives the state, and
\* __setstate__ calls __init__(**state) on a new object of the class.
GetState(o) == DictOf(o)
SetState(cls, state) == Construct(cls, state)
PickleRoundTrip(o) == SetState(o.cls, GetState(o))

\* isinstance(o, cls): Child is a subclass of Person
IsInstance(o, cls) == o.cls = cls \/ (o.cls = "Child" /\ cls = "Person")

\* pydash.predicates.is_match(obj, source) on two dicts of plain values:
\* every key of source is in obj with an equal value.
is_match(obj, source) ==
    \A k \in DOMAIN source : k \in DOMAIN obj /\ obj[k] = source[k]

EqMatch_swapped(other_dict, self_dict) == is_match(self_dict, other_dict)

\* the call in Dictable.__eq__ passes (other.__dict__, self.__dict__)
EqMatch(other_dict, self_dict) == is_match(other_dict, self_dict)

\* Dictable.__eq__(self, other)
EqMethod(self, other) ==
    IF IsInstance(other, self.cls)
    THEN IF EqMatch(DictOf(other), DictOf(self)) THEN "True" ELSE "False"
    ELSE "NotImplemented"

\* a == b for two distinct objects: the right operand's method is tried
\* first when its class is a proper subclass of the left operand's; when
\* both methods return NotImplemented the objects are compared by identity.
PyEquals(a, b) ==
    LET first == IF b.cls # a.cls /\ IsInstance(b, a.cls)
                 THEN EqMethod(b, a) ELSE EqMethod(a, b)
        second == IF b.cls # a.cls /\ IsInstance(b, a.cls)
                  THEN EqMethod(a, b) ELSE EqMethod(b, a)
    IN  IF first # "NotImplemented" THEN first
        ELSE IF second # "NotImplemented" THEN second
        ELSE "False"

Objects ==
    {PersonInit(n, a, o) : n \in NameArgs, a \in AgeArgs, o \in OccupationArgs}
    \cup {ChildInit(n, a, s) : n \in NameArgs, a \in AgeArgs, s \in SchoolArgs}

\* what op leaves behind: the object it made (if any) and the comparison
Compared(d, op, made) ==
    [d EXCEPT !.op = op, !.outcome = made.outcome, !.c = made.obj,
              !.eq = IF made.outcome = "ok" THEN PyEquals(made.obj, d.a)
                     ELSE "none"]

DcInit ==
    /\ \E a \in Objects, b \in Objects :
          dict_ = [a |-> a, b |-> b, op |-> "new", outcome |-> "ok",
                   c |-> NoObject, eq |-> "none"]
    /\ MatchglobParked
    /\ bd = Parked
    /\ trav = Parked
    /\ iter = Parked
    /\ cwd = Parked
    /\ perm = Parked

\* a == b
DcEq ==
    /\ dict_.op = "new"
    /\ dict_' = [dict_ EXCEPT !.op = "eq", !.eq = PyEquals(dict_.a, dict_.b)]
    /\ UNCHANGED <<mgvars, bd, perm, trav, iter, cwd>>

\* copy.copy(a) == a
DcCopy ==
    /\ dict_.op = "new"
    /\ dict_' = Compared(dict_, "copy", Copy(dict_.a))
    /\ UNCHANGED <<mgvars, bd, perm, trav, iter, cwd>>

\* copy.deepcopy(a) == a
DcDeepCopy ==
    /\ dict_.op = "new"
    /\ dict_' = Compared(dict_, "deepcopy", DeepCopy(dict_.a))
    /\ UNCHANGED <<mgvars, bd, perm, trav, iter, cwd>>

\* pickle.loads(pickle.dumps(a)) == a
DcPickle ==
    /\ dict_.op = "new"
    /\ dict_' = Compared(dict_, "pickle", PickleRoundTrip(dict_.a))
    /\ UNCHANGED <<mgvars, bd, perm, trav, iter, cwd>>

DcNext == DcEq \/ DcCopy \/ DcDeepCopy \/ DcPickle

SpecDictable == DcInit /\ [][DcNext]_vars

\* b is an instance of a's class and b.__dict__ has every key of
\* a.__dict__ with an equal value
ContainsDictOf(a, b) ==
    /\ IsInstance(b, a.cls)
    /\ \A k \in DOMAIN DictOf(a) :
          k \in DOMAIN DictOf(b) /\ DictOf(b)[k] = DictOf(a)[k]

Remade == dict_.op \in {"copy", "deepcopy", "pickle"}

\* C18 (as stated): a == b is true when b is an instance of a's class and
\* b.__dict__ contains every key of a.__dict__ with an equal value, even if
\* b.__dict__ has more keys; and copy.copy(x), copy.deepcopy(x) and an
\* unpickled pickle of x all compare equal to x.
C18_EqualAndCopies ==
    /\ (dict_.op = "eq" /\ ContainsDictOf(dict_.a, dict_.b))
       => dict_.eq = "True"
    /\ Remade => (dict_.outcome = "ok" /\ dict_.eq = "True")

\* C18 (amended): the equality part as stated; the copy, the deep copy and
\* the unpickled pickle exist and compare equal to x when x is a Person,
\* while for a Child each of the three raises TypeError.
C18_EqualAndPersonCopies ==
    /\ (dict_.op = "eq" /\ ContainsDictOf(dict_.a, dict_.b))
       => dict_.eq = "True"
    /\ (Remade /\ dict_.a.cls = "Person")
       => (dict_.outcome = "ok" /\ dict_.eq = "True")
    /\ (Remade /\ dict_.a.cls = "Child") => dict_.outcome = "TypeError"

C18_Witness ==
    /\ dict_.op = "eq"
    /\ dict_.a.cls = "Person"
    /\ dict_.b.cls = "Child"
    /\ ContainsDictOf(dict_.a, dict_.b)
    /\ dict_.eq = "True"

(***************************************************************************)
(* paths.py: in_directory.  Directories are absolute paths written as       *)
(* sequences of names; the directory tree does not change while the blocks  *)
(* are open.  cwd.wd is the process working directory, cwd.stack holds one  *)
(* frame per open with-block (innermost first): the block's local oldwd     *)
(* and, as history, the working directory when the block was entered.       *)
(***************************************************************************)
MaxNest == 2
MaxMoves == 2

Dirs == {<<>>, <<"w">>, <<"w", "sub">>, <<"t">>}

\* arguments of os.chdir / in_directory: absolute or relative to cwd.wd
DirArgs ==
    {[abs |-> TRUE, parts |-> p] : p \in Dirs \cup {<<"gone">>}}
    \cup {[abs |-> FALSE, parts |-> p] : p \in {<<"sub">>, <<"..">>, <<"w">>}}

RECURSIVE Walk(_, _)
Walk(at, parts) ==
    IF parts = <<>> THEN at
    ELSE IF Head(parts) = ".."
         THEN Walk(IF at = <<>> THEN at ELSE SubSeq(at, 1, Len(at) - 1),
                   Tail(parts))
         ELSE Walk(Append(at, Head(parts)), Tail(parts))

Resolve(wd, arg) == IF arg.abs THEN Walk(<<>>, arg.parts) ELSE Walk(wd, arg.parts)

\* os.chdir(arg) when the working directory is wd
Chdir(wd, arg) ==
    IF Resolve(wd, arg) \in Dirs
    THEN [outcome |-> "ok", wd |-> Resolve(wd, arg)]
    ELSE [outcome |-> "FileNotFoundError", wd |-> wd]

Absolute(dir) == [abs |-> TRUE, parts |-> dir]

NoLast == [how |-> "none", entry |-> <<>>, was |-> <<>>]

Finally_onlynormal(c, oldwd, entry, how) ==
    [c EXCEPT !.wd = IF how = "normal" THEN Chdir(c.wd, Absolute(oldwd)).wd
                     ELSE c.wd,
              !.last = [how |-> how, entry |-> entry, was |-> c.wd]]

\* finally: os.chdir(oldwd), however the try suite was left
Finally(c, oldwd, entry, how) ==
    [c EXCEPT !.wd = Chdir(c.wd, Absolute(oldwd)).wd,
              !.last = [how |-> how, entry |-> entry, was |-> c.wd]]

\* entering: oldwd = os.getcwd(); os.chdir(str(directory)); yield
InDirectoryEnter(c, directory) ==
    LET oldwd == c.wd
        moved == Chdir(c.wd, directory)
    IN  IF moved.outcome = "ok"
        THEN [c EXCEPT !.wd = moved.wd,
                       !.stack = <<[oldwd |-> oldwd, entry |-> c.wd]>> \o @,
                       !.last = NoLast]
        ELSE Finally(c, oldwd, c.wd, "chdir failed")

\* leaving the innermost block, normally or with an exception
InDirectoryLeave(c, how) ==
    LET frame == Head(c.stack)
    IN  Finally([c EXCEPT !.stack = Tail(@)], frame.oldwd, frame.entry, how)

CwdInit ==
    /\ \E wd \in Dirs :
          cwd = [wd |-> wd, stack |-> <<>>, moves |-> 0, last |-> NoLast]
    /\ MatchglobParked
    /\ bd = Parked
    /\ trav = Parked
    /\ iter = Parked
    /\ perm = Parked
    /\ dict_ = Parked

\* with in_directory(directory):
CwdEnter ==
    /\ Len(cwd.stack) < MaxNest
    /\ \E directory \in DirArgs : cwd' = InDirectoryEnter(cwd, directory)
    /\ UNCHANGED <<mgvars, bd, perm, trav, iter, dict_>>

\* the body of a block (or code outside any block) calls os.chdir itself
CwdBodyChdir ==
    /\ cwd.moves < MaxMoves
    /\ \E arg \in DirArgs :
          /\ Chdir(cwd.wd, arg).outcome = "ok"
          /\ cwd' = [cwd EXCEPT !.wd = Chdir(cwd.wd, arg).wd,
                                !.moves = @ + 1, !.last = NoLast]
    /\ UNCHANGED <<mgvars, bd, perm, trav, iter, dict_>>

\* the end of the innermost block is reached
CwdExit ==
    /\ cwd.stack # <<>>
    /\ cwd' = InDirectoryLeave(cwd, "normal")
    /\ UNCHANGED <<mgvars, bd, perm, trav, iter, dict_>>

\* an exception raised in the innermost block leaves it
CwdRaise ==
    /\ cwd.stack # <<>>
    /\ cwd' = InDirectoryLeave(cwd, "exception")
    /\ UNCHANGED <<mgvars, bd, perm, trav, iter, dict_>>

CwdNext == CwdEnter \/ CwdBodyChdir \/ CwdExit \/ CwdRaise

SpecCwd == CwdInit /\ [][CwdNext]_vars

\* C19: whenever a with-block of in_directory is left, normally or by an
\* exception raised inside it, and also when changing into the target
\* directory fails, the process working directory is again the one that
\* was current when the context manager was entered.
C19_Restored ==
    cwd.last.how \in {"normal", "exception", "chdir failed"}
    => cwd.wd = cwd.last.entry

\* a block whose body had moved elsewhere is left by an exception
C19_Witness ==
    /\ cwd.last.how = "exception"
    /\ cwd.last.was # cwd.last.entry
    /\ cwd.wd = cwd.last.entry

(***************************************************************************)
(* matchglob: termination and the number of segments removed.               *)
(***************************************************************************)
\* segments taken off the two deques since the call began
Removed ==
    (Len(pattern) - Len(pattern_parts)) + (Len(filename) - Len(filename_parts))

\* a pass of the outer loop begins
OuterPass == pc = "loop"

\* a pass of the loop over a run of "**" begins: its test is true
CollapsePass == pc = "collapse" /\ pattern_part = StarStar

\* a pass of the loop looking for a match begins: its test is true
SeekPass == pc = "seek" /\ ~fnmatchcase(filename_part, pattern_part)

TakesPatternSegment == Len(pattern_parts') = Len(pattern_parts) - 1

TakesPathSegment == Len(filename_parts') = Len(filename_parts) - 1

\* the call ends in this step and both deques are as they were
EndsWithoutRemoval ==
    /\ pc' = "done"
    /\ pattern_parts' = pattern_parts
    /\ filename_parts' = filename_parts

\* C21 (as stated): every matchglob call terminates; each pass of the outer
\* loop removes at least one pattern segment and each pass of the inner
\* "**" loops removes one pattern or one path segment, so that the number
\* of removals is at most the number of path segments plus the number of
\* pattern segments.
C21_EachPassRemoves ==
    /\ <>Done
    /\ [][/\ OuterPass => TakesPatternSegment
          /\ CollapsePass => (TakesPatternSegment \/ TakesPathSegment)
          /\ SeekPass => (TakesPatternSegment \/ TakesPathSegment)
          /\ Removed' <= Len(pattern) + Len(filename)]_vars

\* C21 (amended): every matchglob call terminates (returns or raises).  A
\* pass of the outer loop removes a pattern segment when one is left, and
\* otherwise ends the call at once (True when no path segment is left
\* either, IndexError when one is); a pass of the loop over a run of "**"
\* removes exactly one pattern segment when one is left and otherwise ends
\* the call with IndexError; a pass of the loop looking for a match removes
\* exactly one path segment when one is left and otherwise ends the call
\* with False.  No segment is ever put back, so the number of removals
\* never exceeds the number of path segments plus pattern segments.
C21_Terminates ==
    /\ <>Done
    /\ [][/\ OuterPass =>
                IF pattern_parts # <<>>
                THEN TakesPatternSegment
                ELSE /\ EndsWithoutRemoval
                     /\ result' = IF filename_parts = <<>>
                                  THEN "True" ELSE "IndexError"
          /\ CollapsePass =>
                IF pattern_parts # <<>>
                THEN TakesPatternSegment /\ filename_parts' = filename_parts
                ELSE EndsWithoutRemoval /\ result' = "IndexError"
          /\ SeekPass =>
                IF filename_parts # <<>>
                THEN TakesPathSegment /\ pattern_parts' = pattern_parts
                ELSE EndsWithoutRemoval /\ result' = "False"
          /\ Len(pattern_parts') <= Len(pattern_parts)
          /\ Len(filename_parts') <= Len(filename_parts)
          /\ Removed' <= Len(pattern) + Len(filename)]_vars

\* a call "**"/s on a path of two or more segments none of which matches s:
\* the loop looking for a match took every path segment, and its last pass
\* ended the call with False without removing anything
C21_Witness ==
    /\ Done
    /\ result = "False"
    /\ Len(pattern) = 2
    /\ pattern[1] = StarStar
    /\ pattern[2] # StarStar
    /\ Len(filename) >= 2
    /\ \A j \in 1..Len(filename) : ~fnmatchcase(filename[j], pattern[2])
    /\ filename_parts = <<>>
    /\ pattern_parts = <<>>
    /\ Removed = Len(pattern) + Len(filename)

====
